---- MODULE Spec2Model ----
(***************************************************************************)
(* Model of src/app/page.tsx: the in-browser image converter.              *)
(*                                                                         *)
(* The React state of Home (files, items, busy, quality, iconSize) is the  *)
(* state of the model.  Every invocation of the async function convertAll  *)
(* is a frame in `runs`: it holds what the closure captured (files,        *)
(* quality, iconSize), its locals (isSingle, zip, the loop position, the   *)
(* revoke callback of the item being converted) and the await it is        *)
(* suspended at.  One action resumes a frame from one await and runs the   *)
(* synchronous code up to the next await.                                  *)
(*                                                                         *)
(* A file name is the sequence of its "."-separated parts, so that         *)
(* getBaseName and the extension test work on it as the code does.         *)
(***************************************************************************)
EXTENDS Integers, Sequences, FiniteSets, TLC

\* ------------------------------------------------------------------ bounds

\* longest file list one submission (drop or selection) delivers
MaxIncoming == 2

\* longest PNG buffer handed to buildIcoBlob
MaxPngLen == 3

\* the number of consecutive runs with the same inputs that are counted
MaxSeen == 2

\* ------------------------------------------------------- program constants

DEFAULT_SVG_SIZE == 256

DEFAULT_QUALITY == 82

DEFAULT_ICON_SIZE == 256

ACCEPTED_TYPES == {"image/png", "image/jpeg", "image/jpg", "image/svg+xml"}

ACCEPTED_EXTENSIONS == {"png", "jpg", "jpeg", "svg"}

IconSizes == {32, 64, 128, 256}

Modes == {"webp", "ico"}

\* the value of an absent `detail`
Undefined == "undefined"

\* the initial `revoke` of an iteration: () => {}
NoRevoke == <<0, "noop">>

\* ------------------------------------------------------------------ inputs

\* The files a user can submit.  A submission may hold the same file, or two
\* files of the same name from different folders, more than once.
PNG_A == [name |-> <<"a", "png">>, type |-> "image/png"]

SVG_A == [name |-> <<"a", "SVG">>, type |-> "image/svg+xml"]

SVG_B == [name |-> <<"b", "SVG">>, type |-> ""]

TXT_N == [name |-> <<"notes", "txt">>, type |-> "text/plain"]

\* photo.JPG of type image/jpeg
JPG_P == [name |-> <<"photo", "JPG">>, type |-> "image/jpeg"]

\* scan.bin of type image/jpg
BIN_S == [name |-> <<"scan", "bin">>, type |-> "image/jpg"]

\* a file named png, without a dot, of unknown type
BARE_PNG == [name |-> <<"png">>, type |-> ""]

\* a.png.txt of unknown type
TXT_A == [name |-> <<"a", "png", "txt">>, type |-> ""]

GIF_C == [name |-> <<"c", "gif">>, type |-> "image/gif"]

\* the files handed to handleFiles where it is called alone
OfferedFiles == {PNG_A, SVG_B, TXT_N, JPG_P, BIN_S, BARE_PNG, TXT_A, GIF_C}

\* an accepted raster file, an accepted vector file (by its extension alone)
\* and a file the filter rejects
FileUniverse == {PNG_A, SVG_B, TXT_N}

\* two accepted files of different names and the same base name
SameBaseFiles == {PNG_A, SVG_A}

SeqsUpTo(S, n) == UNION {[1..k -> S] : k \in 0..n}

\* sample contents of a PNG buffer
PngBytes == {0, 137, 255}

PngBuffers == SeqsUpTo(PngBytes, MaxPngLen)

\* ------------------------------------------------------------ pure helpers

\* String.prototype.toLowerCase on the strings of the model
toLowerCase(s) ==
    CASE s = "SVG" -> "svg"
      [] s = "PNG" -> "png"
      [] s = "JPG" -> "jpg"
      [] s = "JPEG" -> "jpeg"
      [] OTHER -> s

\* file.name.toLowerCase().split(".").pop() || ""
extensionOf(file) == toLowerCase(file.name[Len(file.name)])

isAcceptedFile(file) ==
    \/ file.type \in ACCEPTED_TYPES
    \/ extensionOf(file) \in ACCEPTED_EXTENSIONS

\* file.type === "image/svg+xml" || file.name.toLowerCase().endsWith(".svg")
isSvg(file) ==
    \/ file.type = "image/svg+xml"
    \/ Len(file.name) > 1 /\ toLowerCase(file.name[Len(file.name)]) = "svg"

getBaseName(filename) ==
    IF Len(filename) = 1 THEN filename ELSE SubSeq(filename, 1, Len(filename) - 1)

\* `${baseName}.webp` / `${baseName}.ico`
outputName(filename, mode) == Append(getBaseName(filename), mode)

zipNameOf(mode) ==
    IF mode = "webp" THEN <<"webp-conversions", "zip">> ELSE <<"ico-icons", "zip">>

\* incoming.filter((file) => isAcceptedFile(file))
RECURSIVE filterAccepted(_)
filterAccepted(incoming) ==
    IF incoming = <<>> THEN <<>>
    ELSE IF isAcceptedFile(Head(incoming))
         THEN <<Head(incoming)>> \o filterAccepted(Tail(incoming))
         ELSE filterAccepted(Tail(incoming))

\* nextFiles.map((file) => ({ name: file.name, status: "ready" }))
syncItems(nextFiles) ==
    [k \in 1..Len(nextFiles) |->
        [name |-> nextFiles[k].name, status |-> "ready", detail |-> Undefined]]

\* { ...item, ...patch }
mergePatch(item, patch) ==
    [f \in DOMAIN item |-> IF f \in DOMAIN patch THEN patch[f] ELSE item[f]]

\* prev.map((item) => (item.name === name ? { ...item, ...patch } : item))
updateItem(prev, name, patch) ==
    [k \in 1..Len(prev) |->
        IF prev[k].name = name THEN mergePatch(prev[k], patch) ELSE prev[k]]

\* ------------------------------------------------------------ buildIcoBlob

\* new ArrayBuffer(n): n zero bytes, at offsets 0..n-1 (index offset + 1)
newArrayBuffer(n) == [k \in 1..n |-> 0]

\* DataView.setUint8(offset, value)
setUint8(buffer, offset, value) ==
    [buffer EXCEPT ![offset + 1] = value % 256]

\* DataView.setUint16(offset, value, true): little-endian
setUint16(buffer, offset, value) ==
    [buffer EXCEPT ![offset + 1] = value % 256,
                   ![offset + 2] = (value \div 256) % 256]

\* DataView.setUint32(offset, value, true): little-endian
setUint32(buffer, offset, value) ==
    [buffer EXCEPT ![offset + 1] = value % 256,
                   ![offset + 2] = (value \div 256) % 256,
                   ![offset + 3] = (value \div 65536) % 256,
                   ![offset + 4] = (value \div 16777216) % 256]

\* new Uint8Array(buffer, byteOffset).set(source)
setBytes(buffer, byteOffset, source) ==
    [k \in 1..Len(buffer) |->
        IF k > byteOffset /\ k <= byteOffset + Len(source)
        THEN source[k - byteOffset] ELSE buffer[k]]

\* buildIcoBlob without the last `offset += 4`: the data offset is written
\* over the data size
buildIcoBlobSameOffset(png, size) ==
    LET headerSize == 6 + 16
        totalSize  == headerSize + Len(png)
        sizeByte   == IF size >= 256 THEN 0 ELSE size
        b0  == newArrayBuffer(totalSize)
        b1  == setUint16(b0, 0, 0)
        b2  == setUint16(b1, 2, 1)
        b3  == setUint16(b2, 4, 1)
        b4  == setUint8(b3, 6, sizeByte)
        b5  == setUint8(b4, 7, sizeByte)
        b6  == setUint8(b5, 8, 0)
        b7  == setUint8(b6, 9, 0)
        b8  == setUint16(b7, 10, 1)
        b9  == setUint16(b8, 12, 32)
        b10 == setUint32(b9, 14, Len(png))
        b11 == setUint32(b10, 14, headerSize)
    IN setBytes(b11, headerSize, png)

\* the bytes of the blob buildIcoBlob(pngData, size) returns
buildIcoBlob(png, size) ==
    LET headerSize == 6 + 16
        totalSize  == headerSize + Len(png)
        sizeByte   == IF size >= 256 THEN 0 ELSE size
        b0  == newArrayBuffer(totalSize)
        b1  == setUint16(b0, 0, 0)
        b2  == setUint16(b1, 2, 1)
        b3  == setUint16(b2, 4, 1)
        b4  == setUint8(b3, 6, sizeByte)
        b5  == setUint8(b4, 7, sizeByte)
        b6  == setUint8(b5, 8, 0)
        b7  == setUint8(b6, 9, 0)
        b8  == setUint16(b7, 10, 1)
        b9  == setUint16(b8, 12, 32)
        b10 == setUint32(b9, 14, Len(png))
        b11 == setUint32(b10, 18, headerSize)
    IN setBytes(b11, headerSize, png)

\* ------------------------------------------------------------ parseSvgSize

\* Attribute values are texts, sequences of characters.  The empty text also
\* stands for an absent attribute: `getAttribute("width") || ""`, and
\* `if (viewBox)` fails on null and on "" alike.
Digits == <<"0", "1", "2", "3", "4", "5", "6", "7", "8", "9">>

isDigit(c) == \E d \in DOMAIN Digits : Digits[d] = c

digitValue(c) == (CHOOSE d \in DOMAIN Digits : Digits[d] = c) - 1

isWhitespace(c) == c = " "

\* the position of the first character at or after k that is not whitespace
RECURSIVE skipWhitespace(_, _)
skipWhitespace(text, k) ==
    IF k <= Len(text) /\ isWhitespace(text[k])
    THEN skipWhitespace(text, k + 1)
    ELSE k

\* the value of the digits from position k on, after the digits worth `acc`
RECURSIVE readDigits(_, _, _)
readDigits(text, k, acc) ==
    IF k <= Len(text) /\ isDigit(text[k])
    THEN readDigits(text, k + 1, 10 * acc + digitValue(text[k]))
    ELSE acc

NaN == [finite |-> FALSE, value |-> 0]

\* parseFloat on texts of digits, letters, blanks and punctuation: leading
\* whitespace is skipped, the longest run of digits is the value, whatever
\* follows it is ignored, and a text that does not start with a digit is NaN
parseFloat(text) ==
    LET k == skipWhitespace(text, 1)
    IN IF k <= Len(text) /\ isDigit(text[k])
       THEN [finite |-> TRUE, value |-> readDigits(text, k, 0)]
       ELSE NaN

\* Number.isFinite
isFinite(x) == x.finite

\* text.split(/\s+/), from position k on, `part` being the part under way
RECURSIVE split(_, _, _)
split(text, k, part) ==
    IF k > Len(text) THEN <<part>>
    ELSE IF isWhitespace(text[k])
         THEN <<part>> \o split(text, skipWhitespace(text, k), <<>>)
         ELSE split(text, k + 1, Append(part, text[k]))

defaultSize == [width |-> DEFAULT_SVG_SIZE, height |-> DEFAULT_SVG_SIZE]

\* the size parseSvgSize takes from the viewBox, or the default
viewBoxSize(doc) ==
    IF doc.viewBox # <<>>
    THEN LET texts == split(doc.viewBox, 1, <<>>)
             parts == [k \in DOMAIN texts |-> parseFloat(texts[k])]
         IN IF Len(parts) = 4 /\ \A k \in DOMAIN parts : isFinite(parts[k])
            THEN [width |-> parts[3].value, height |-> parts[4].value]
            ELSE defaultSize
    ELSE defaultSize

\* parseSvgSize with the viewBox read before the width and height attributes
parseSvgSizeViewBoxFirst(doc) ==
    IF ~doc.svg THEN defaultSize
    ELSE LET width  == parseFloat(doc.width)
             height == parseFloat(doc.height)
         IN IF viewBoxSize(doc) # defaultSize THEN viewBoxSize(doc)
            ELSE IF isFinite(width) /\ isFinite(height)
                 THEN [width |-> width.value, height |-> height.value]
                 ELSE defaultSize

\* parseSvgSize(svgText).  A document is what DOMParser made of the markup:
\* whether querySelector("svg") finds an element (it finds none in the error
\* document of unparseable markup) and the three attributes of that element.
parseSvgSize(doc) ==
    IF ~doc.svg THEN defaultSize
    ELSE LET width  == parseFloat(doc.width)
             height == parseFloat(doc.height)
         IN IF isFinite(width) /\ isFinite(height)
            THEN [width |-> width.value, height |-> height.value]
            ELSE viewBoxSize(doc)

\* a || b || DEFAULT_SVG_SIZE on numbers: 0 is the falsy one
orElse(a, b) == IF a # 0 THEN a ELSE IF b # 0 THEN b ELSE DEFAULT_SVG_SIZE

\* the width and height loadImageFromFile returns for an SVG file whose
\* markup parses to `doc` and whose image loads with the natural size `nat`
svgSourceSize(doc, nat) ==
    LET svgSize == parseSvgSize(doc)
    IN <<orElse(svgSize.width, nat.width), orElse(svgSize.height, nat.height)>>

NoDocument == [svg |-> FALSE, width |-> <<>>, height |-> <<>>, viewBox |-> <<>>]

\* sample values of the width and height attributes: absent, 48, 24, 0,
\* 48px, 100% and auto
SizeTexts ==
    {<<>>, <<"4", "8">>, <<"2", "4">>, <<"0">>, <<"4", "8", "p", "x">>,
     <<"1", "0", "0", "%">>, <<"a", "u", "t", "o">>}

\* sample values of the viewBox attribute: absent, "0 0 64 32", "0 0 64",
\* "0 0 64 32 1", "0,0,64,32", " 0 0 64 32", "0  0 64 32", "0 0 x 32"
\* and "0 0 0 0"
ViewBoxTexts ==
    {<<>>,
     <<"0", " ", "0", " ", "6", "4", " ", "3", "2">>,
     <<"0", " ", "0", " ", "6", "4">>,
     <<"0", " ", "0", " ", "6", "4", " ", "3", "2", " ", "1">>,
     <<"0", ",", "0", ",", "6", "4", ",", "3", "2">>,
     <<" ", "0", " ", "0", " ", "6", "4", " ", "3", "2">>,
     <<"0", " ", " ", "0", " ", "6", "4", " ", "3", "2">>,
     <<"0", " ", "0", " ", "x", " ", "3", "2">>,
     <<"0", " ", "0", " ", "0", " ", "0">>}

SvgDocuments ==
    [svg : BOOLEAN, width : SizeTexts, height : SizeTexts, viewBox : ViewBoxTexts]

\* the natural size of the loaded image: none, or 300 by 150
NaturalSizes == {[width |-> 0, height |-> 0], [width |-> 300, height |-> 150]}

\* ------------------------------------------------------------------- state

VARIABLES
    files,      \* useState<File[]>: the accepted files
    items,      \* useState<ConversionItem[]>: the queue shown to the user
    busy,       \* useState(false)
    quality,    \* useState(0.82), in hundredths
    iconSize,   \* useState(256)
    runs,       \* the invocations of convertAll: those suspended at an await,
                \* and the one that has just returned (kept until the next
                \* event, so that what it left behind can be stated)
    rejected,   \* the last event was an invocation of convertAll that
                \* returned at its guard
    pngData,    \* buildIcoBlob on its own: the PNG buffer,
    icoSize,    \*   the size argument,
    icoBlob,    \*   and the bytes of the blob it returned (<<>> before the call)
    svgDoc,     \* loadImageFromFile's sizing of an SVG on its own: the markup,
    natural,    \*   the naturalWidth and naturalHeight of the loaded image,
    source,     \*   and the width and height returned (<<>> before the call)
    offered,    \* handleFiles on its own: the list it is about to be handed
    seen        \* where two runs are compared: the inputs of the last
                \* single-file run that succeeded, the outputs of the
                \* consecutive runs with those inputs, and their number

vars == <<files, items, busy, quality, iconSize, runs, rejected,
          pngData, icoSize, icoBlob, svgDoc, natural, source, offered, seen>>

icoVars == <<pngData, icoSize, icoBlob>>

svgVars == <<svgDoc, natural, source>>

\* the variables of the functions called alone
aloneVars == <<icoVars, svgVars>>

\* the guard without its busy test
guardIgnoresBusy(fs, b) == Len(fs) = 0

\* !files.length || busy
guardRejects(fs, b) == Len(fs) = 0 \/ b

\* isSingle as files.length >= 1
isSingleFromOne(fs) == Len(fs) >= 1

\* const isSingle = files.length === 1
isSingleOf(fs) == Len(fs) = 1

\* the archive condition as files.length >= 1
needsArchiveFromOne(fs) == Len(fs) >= 1

\* if (files.length > 1) { ... zip.generateAsync ... }
needsArchive(fs) == Len(fs) > 1

\* zip.file(name, blob): JSZip keeps one entry per name, the last one added
zipFile(zip, name, blob) ==
    {e \in zip : e.name # name} \cup {[name |-> name, blob |-> blob]}

InProgress(fr) == fr.pc # "done"

\* beginItem without `updateItem(file.name, { status: "working", ... })`
beginItemKeepsStatus(fr, its) ==
    LET file == fr.files[fr.i]
        url  == <<fr.i, "file">>
    IN [frame |-> [fr EXCEPT !.revoke = NoRevoke,
                             !.objectUrl = url,
                             !.live = @ \cup {url},
                             !.pc = IF isSvg(file) THEN "text" ELSE "load"],
        items |-> its]

\* beginItem with the patch { status: "working" }, which leaves the detail
beginItemKeepsDetail(fr, its) ==
    LET file == fr.files[fr.i]
        url  == <<fr.i, "file">>
    IN [frame |-> [fr EXCEPT !.revoke = NoRevoke,
                             !.objectUrl = url,
                             !.live = @ \cup {url},
                             !.pc = IF isSvg(file) THEN "text" ELSE "load"],
        items |-> updateItem(its, file.name, [status |-> "working"])]

\* The start of one iteration of `for (const file of files)`, up to the first
\* await of loadImageFromFile: the item is marked working, revoke is the
\* no-op, and an object URL is created for the file.
beginItem(fr, its) ==
    LET file == fr.files[fr.i]
        url  == <<fr.i, "file">>
    IN [frame |-> [fr EXCEPT !.revoke = NoRevoke,
                             !.objectUrl = url,
                             !.live = @ \cup {url},
                             !.pc = IF isSvg(file) THEN "text" ELSE "load"],
        items |-> updateItem(its, file.name,
                             [status |-> "working", detail |-> Undefined])]

\* The end of one iteration: the patch of the try or of the catch block, then
\* `finally { revoke(); }`, then the next iteration or the code after the loop
\* up to its await.
endItem(fr, its, patch) ==
    LET its1 == updateItem(its, fr.files[fr.i].name, patch)
        fr1  == [fr EXCEPT !.live = @ \ {fr.revoke},
                           !.revoke = NoRevoke,
                           !.outcome = Append(@, patch.status)]
    IN IF fr.i < Len(fr.files)
       THEN beginItem([fr1 EXCEPT !.i = @ + 1], its1)
       ELSE [frame |-> [fr1 EXCEPT !.pc = IF needsArchive(fr.files)
                                          THEN "zip" ELSE "done"],
             items |-> its1]

errorPatch(message) == [status |-> "error", detail |-> message]

donePatch == [status |-> "done"]

\* isSingle ? downloadBlob(blob, name) : zip.file(name, blob); `artifacts`
\* lists what the run produced, name and content, in the order of production
deliver(fr, blob) ==
    LET name == outputName(fr.files[fr.i].name, fr.mode)
        fr1  == [fr EXCEPT !.artifacts = Append(@, [name |-> name, blob |-> blob])]
    IN IF fr.isSingle
       THEN [fr1 EXCEPT !.downloads = Append(@, name)]
       ELSE [fr1 EXCEPT !.zip = zipFile(@, name, blob)]

\* what the frame was started with, where two runs are compared
inputsOf(fr) ==
    [file |-> fr.files[1], mode |-> fr.mode, quality |-> fr.quality,
     iconSize |-> fr.iconSize]

\* `seen` after the frame fr has taken a step: a single-file run that returns
\* with its item converted is added to the runs with the same inputs, or
\* starts a new comparison
noteRun(s, fr) ==
    IF ~s.on \/ fr.pc # "done" \/ ~fr.isSingle \/ fr.outcome # <<"done">>
    THEN s
    ELSE IF s.times > 0 /\ s.inputs = inputsOf(fr)
         THEN [s EXCEPT !.outputs = @ \cup {fr.artifacts},
                        !.times = IF @ < MaxSeen THEN @ + 1 ELSE @]
         ELSE [s EXCEPT !.inputs = inputsOf(fr), !.outputs = {fr.artifacts},
                        !.times = 1]

\* Resume with setBusy(false) after the try statement, not in its finally:
\* it is skipped when the function throws
ResumeNoFinally(r, res) ==
    /\ runs' = [k \in 1..Len(runs) |-> IF k = r THEN res.frame ELSE runs[k]]
    /\ items' = res.items
    /\ busy' = IF res.frame.pc = "done" /\ ~res.frame.thrown THEN FALSE ELSE busy
    /\ rejected' = FALSE
    /\ seen' = noteRun(seen, res.frame)
    /\ UNCHANGED <<files, quality, iconSize, aloneVars, offered>>

\* the frame r takes the step `res`; `finally { setBusy(false); }` when the
\* function returns or throws
Resume(r, res) ==
    /\ runs' = [k \in 1..Len(runs) |-> IF k = r THEN res.frame ELSE runs[k]]
    /\ items' = res.items
    /\ busy' = IF res.frame.pc = "done" THEN FALSE ELSE busy
    /\ rejected' = FALSE
    /\ seen' = noteRun(seen, res.frame)
    /\ UNCHANGED <<files, quality, iconSize, aloneVars, offered>>

Init ==
    /\ files = <<>>
    /\ items = <<>>
    /\ busy = FALSE
    /\ quality = DEFAULT_QUALITY
    /\ iconSize = DEFAULT_ICON_SIZE
    /\ runs = <<>>
    /\ rejected = FALSE
    /\ pngData = <<>>
    /\ icoSize = DEFAULT_ICON_SIZE
    /\ icoBlob = <<>>
    /\ svgDoc = NoDocument
    /\ natural = [width |-> 0, height |-> 0]
    /\ source = <<>>
    /\ offered = <<>>
    /\ seen = [on |-> FALSE, inputs |-> <<>>, outputs |-> {}, times |-> 0]

\* the same page, with the outputs of its single-file runs compared
InitTwice ==
    /\ files = <<>>
    /\ items = <<>>
    /\ busy = FALSE
    /\ quality = DEFAULT_QUALITY
    /\ iconSize = DEFAULT_ICON_SIZE
    /\ runs = <<>>
    /\ rejected = FALSE
    /\ pngData = <<>>
    /\ icoSize = DEFAULT_ICON_SIZE
    /\ icoBlob = <<>>
    /\ svgDoc = NoDocument
    /\ natural = [width |-> 0, height |-> 0]
    /\ source = <<>>
    /\ offered = <<>>
    /\ seen = [on |-> TRUE, inputs |-> <<>>, outputs |-> {}, times |-> 0]

\* ----------------------------------------------------------------- actions

\* handleFiles with syncItems given the incoming list, not the filtered one
handleFilesSyncsIncoming(incoming) ==
    LET filtered == filterAccepted(incoming)
    IN /\ files' = filtered
       /\ items' = syncItems(incoming)
       /\ runs' = SelectSeq(runs, InProgress)
       /\ rejected' = FALSE
       /\ UNCHANGED <<busy, quality, iconSize, aloneVars, offered, seen>>

\* onInputChange / onDrop -> handleFiles(incoming)
handleFiles(incoming) ==
    LET filtered == filterAccepted(incoming)
    IN /\ files' = filtered
       /\ items' = syncItems(filtered)
       /\ runs' = SelectSeq(runs, InProgress)
       /\ rejected' = FALSE
       /\ UNCHANGED <<busy, quality, iconSize, aloneVars, offered, seen>>

\* the Clear button (disabled while there are no files)
clearAll ==
    /\ Len(files) > 0
    /\ files' = <<>>
    /\ items' = <<>>
    /\ runs' = SelectSeq(runs, InProgress)
    /\ rejected' = FALSE
    /\ UNCHANGED <<busy, quality, iconSize, aloneVars, offered, seen>>

\* convertAll with the list of what it produced kept from one invocation to
\* the next (declared outside the function)
convertAllKeepsOutput(mode) ==
    IF guardRejects(files, busy)
    THEN /\ rejected' = TRUE
         /\ UNCHANGED <<files, items, busy, quality, iconSize, runs, aloneVars,
                      offered, seen>>
    ELSE LET kept == IF runs # <<>> /\ ~InProgress(runs[Len(runs)])
                     THEN runs[Len(runs)].artifacts ELSE <<>>
             fr0 == [mode |-> mode, files |-> files, quality |-> quality,
                     iconSize |-> iconSize, isSingle |-> isSingleOf(files),
                     i |-> 1, pc |-> "start", objectUrl |-> NoRevoke,
                     revoke |-> NoRevoke, live |-> {}, zip |-> {},
                     downloads |-> <<>>, artifacts |-> kept, outcome |-> <<>>,
                     thrown |-> FALSE]
             res == beginItem(fr0, items)
         IN /\ busy' = TRUE
            /\ rejected' = FALSE
            /\ runs' = Append(SelectSeq(runs, InProgress), res.frame)
            /\ items' = res.items
            /\ UNCHANGED <<files, quality, iconSize, aloneVars, offered, seen>>

\* convertAll(mode), up to its first await
convertAll(mode) ==
    IF guardRejects(files, busy)
    THEN /\ rejected' = TRUE
         /\ UNCHANGED <<files, items, busy, quality, iconSize, runs, aloneVars,
                      offered, seen>>
    ELSE LET fr0 == [mode |-> mode, files |-> files, quality |-> quality,
                     iconSize |-> iconSize, isSingle |-> isSingleOf(files),
                     i |-> 1, pc |-> "start", objectUrl |-> NoRevoke,
                     revoke |-> NoRevoke, live |-> {}, zip |-> {},
                     downloads |-> <<>>, artifacts |-> <<>>, outcome |-> <<>>,
                     thrown |-> FALSE]
             res == beginItem(fr0, items)
         IN /\ busy' = TRUE
            /\ rejected' = FALSE
            /\ runs' = Append(SelectSeq(runs, InProgress), res.frame)
            /\ items' = res.items
            /\ UNCHANGED <<files, quality, iconSize, aloneVars, offered, seen>>

\* await file.text() resolves: parseSvgSize, then a second object URL, for the
\* re-wrapped markup, replaces the first in `objectUrl`
textResolved(r) ==
    /\ runs[r].pc = "text"
    /\ LET url == <<runs[r].i, "svg">>
       IN Resume(r, [frame |-> [runs[r] EXCEPT !.objectUrl = url,
                                               !.live = @ \cup {url},
                                               !.pc = "load"],
                     items |-> items])

\* await file.text() rejects (the file can no longer be read):
\* loadImageFromFile throws before it returns `revoke`
textRejected(r) ==
    /\ runs[r].pc = "text"
    /\ Resume(r, endItem(runs[r], items, errorPatch("The file could not be read")))

\* img.onload, and canvas.getContext("2d") returns a context: revoke is
\* loaded.revoke, the image is drawn and canvasToBlob is awaited
loadResolved(r) ==
    /\ runs[r].pc = "load"
    /\ Resume(r, [frame |-> [runs[r] EXCEPT !.revoke = runs[r].objectUrl,
                                            !.pc = "encode"],
                  items |-> items])

\* img.onload, and canvas.getContext("2d") returns null
canvasUnavailable(r) ==
    /\ runs[r].pc = "load"
    /\ Resume(r, endItem([runs[r] EXCEPT !.revoke = runs[r].objectUrl], items,
                         errorPatch("Canvas unavailable")))

\* img.onerror: loadImageFromFile throws before it returns `revoke`
loadRejected(r) ==
    /\ runs[r].pc = "load"
    /\ Resume(r, endItem(runs[r], items, errorPatch("Image load failed")))

\* encodeResolved reading the quality of the page as it is when the blob is
\* made, not as it was when convertAll was invoked
encodeResolvedLive(r) ==
    /\ runs[r].pc = "encode"
    /\ LET fr == runs[r]
       IN IF fr.mode = "webp"
          THEN Resume(r, endItem(deliver(fr, [type |-> "image/webp", src |-> fr.i,
                                              arg |-> quality]),
                                 items, donePatch))
          ELSE Resume(r, [frame |-> [fr EXCEPT !.pc = "buffer"], items |-> items])

\* canvas.toBlob calls back with a blob
encodeResolved(r) ==
    /\ runs[r].pc = "encode"
    /\ LET fr == runs[r]
       IN IF fr.mode = "webp"
          THEN Resume(r, endItem(deliver(fr, [type |-> "image/webp", src |-> fr.i,
                                              arg |-> fr.quality]),
                                 items, donePatch))
          ELSE Resume(r, [frame |-> [fr EXCEPT !.pc = "buffer"], items |-> items])

\* canvas.toBlob calls back with null
encodeRejected(r) ==
    /\ runs[r].pc = "encode"
    /\ Resume(r, endItem(runs[r], items, errorPatch("Canvas export failed")))

\* await pngBlob.arrayBuffer() resolves and buildIcoBlob returns
bufferResolved(r) ==
    /\ runs[r].pc = "buffer"
    /\ LET fr == runs[r]
       IN Resume(r, endItem(deliver(fr, [type |-> "image/x-icon", src |-> fr.i,
                                         arg |-> fr.iconSize]),
                            items, donePatch))

\* pngBlob.arrayBuffer() rejects, or buildIcoBlob throws (allocation)
containerFailed(r) ==
    /\ runs[r].pc = "buffer"
    /\ Resume(r, endItem(runs[r], items, errorPatch("Array buffer allocation failed")))

\* await zip.generateAsync resolves: downloadBlob(zipBlob, zipName)
zipResolved(r) ==
    /\ runs[r].pc = "zip"
    /\ Resume(r, [frame |-> [runs[r] EXCEPT !.downloads = Append(@, zipNameOf(runs[r].mode)),
                                            !.pc = "done"],
                  items |-> items])

\* zip.generateAsync rejects, with the rejection caught and written on the
\* items instead of leaving convertAll
zipRejectedCaught(r) ==
    /\ runs[r].pc = "zip"
    /\ Resume(r, [frame |-> [runs[r] EXCEPT !.pc = "done"],
                  items |-> [k \in DOMAIN items |->
                                mergePatch(items[k], errorPatch("Archive failed"))]])

\* await zip.generateAsync rejects: convertAll rejects
zipRejected(r) ==
    /\ runs[r].pc = "zip"
    /\ Resume(r, [frame |-> [runs[r] EXCEPT !.thrown = TRUE, !.pc = "done"],
                  items |-> items])

\* the events of the page, the submissions drawn from the lists `Incoming`
NextOver(Incoming) ==
    \/ \E r \in DOMAIN runs : textResolved(r)
    \/ \E r \in DOMAIN runs : textRejected(r)
    \/ \E r \in DOMAIN runs : loadResolved(r)
    \/ \E r \in DOMAIN runs : canvasUnavailable(r)
    \/ \E r \in DOMAIN runs : loadRejected(r)
    \/ \E r \in DOMAIN runs : encodeResolved(r)
    \/ \E r \in DOMAIN runs : encodeRejected(r)
    \/ \E r \in DOMAIN runs : bufferResolved(r)
    \/ \E r \in DOMAIN runs : containerFailed(r)
    \/ \E r \in DOMAIN runs : zipResolved(r)
    \/ \E r \in DOMAIN runs : zipRejected(r)
    \/ \E mode \in Modes : convertAll(mode)
    \/ clearAll
    \/ \E incoming \in Incoming : handleFiles(incoming)

Next == NextOver(SeqsUpTo(FileUniverse, MaxIncoming))

Spec == Init /\ [][Next]_vars

\* the lists of SameBaseFiles that name no file twice
DistinctLists ==
    {l \in SeqsUpTo(SameBaseFiles, MaxIncoming) :
        \A j, k \in DOMAIN l : j # k => l[j] # l[k]}

NextSameBase == NextOver(DistinctLists)

SpecSameBase == Init /\ [][NextSameBase]_vars

\* the await a run is suspended at settles, one way or the other
Settle ==
    \E r \in DOMAIN runs :
        \/ textResolved(r) \/ textRejected(r)
        \/ loadResolved(r) \/ canvasUnavailable(r) \/ loadRejected(r)
        \/ encodeResolved(r) \/ encodeRejected(r)
        \/ bufferResolved(r) \/ containerFailed(r)
        \/ zipResolved(r) \/ zipRejected(r)

\* the page over lists of distinct names, every promise a run awaits being
\* settled eventually
SpecLive == Init /\ [][NextSameBase]_vars /\ WF_vars(Settle)

\* ------------------------------------------- the page with its settings

\* sample positions of the quality slider (min 0.5, max 1, step 0.01)
Qualities == {50, DEFAULT_QUALITY, 100}

\* onChange of the quality slider
setQuality(q) ==
    /\ quality' = q
    /\ rejected' = FALSE
    /\ UNCHANGED <<files, items, busy, iconSize, runs, aloneVars, offered, seen>>

\* onClick of an ICO size button
setIconSize(size) ==
    /\ iconSize' = size
    /\ rejected' = FALSE
    /\ UNCHANGED <<files, items, busy, quality, runs, aloneVars, offered, seen>>

\* a raster file, a vector file, and the two together
ConfigLists == {<<PNG_A>>, <<SVG_B>>, <<PNG_A, SVG_B>>}

NextConfig ==
    \/ NextOver(ConfigLists)
    \/ \E q \in Qualities : setQuality(q)
    \/ \E size \in IconSizes : setIconSize(size)

SpecConfig == Init /\ [][NextConfig]_vars

\* the page with its quality slider, the runs compared
NextTwice ==
    \/ NextOver(ConfigLists)
    \/ \E q \in Qualities : setQuality(q)

SpecTwice == InitTwice /\ [][NextTwice]_vars

\* ----------------------------------------------------- buildIcoBlob, alone

\* a caller picks the arguments of the next call
icoArguments ==
    /\ \E png \in PngBuffers : pngData' = png
    /\ \E size \in IconSizes : icoSize' = size
    /\ icoBlob' = <<>>
    /\ UNCHANGED <<files, items, busy, quality, iconSize, runs, rejected,
                   svgVars, offered, seen>>

\* buildIcoBlob(pngData, icoSize) returns
icoCall ==
    /\ icoBlob = <<>>
    /\ icoBlob' = buildIcoBlob(pngData, icoSize)
    /\ UNCHANGED <<files, items, busy, quality, iconSize, runs, rejected,
                   pngData, icoSize, svgVars, offered, seen>>

NextIco == icoArguments \/ icoCall

SpecIco == Init /\ [][NextIco]_vars

\* ---------------------------------- the sizing of an SVG source, alone

\* a caller picks the markup and the image the browser makes of it
svgArguments ==
    /\ \E doc \in SvgDocuments : svgDoc' = doc
    /\ \E nat \in NaturalSizes : natural' = nat
    /\ source' = <<>>
    /\ UNCHANGED <<files, items, busy, quality, iconSize, runs, rejected,
                   icoVars, offered, seen>>

\* loadImageFromFile returns for the SVG file
svgCall ==
    /\ source = <<>>
    /\ source' = svgSourceSize(svgDoc, natural)
    /\ UNCHANGED <<files, items, busy, quality, iconSize, runs, rejected,
                   icoVars, svgDoc, natural, offered, seen>>

NextSvg == svgArguments \/ svgCall

SpecSvg == Init /\ [][NextSvg]_vars

\* ----------------------------------------------------- handleFiles, alone

\* the user picks the files of the next drop or selection
acceptArguments ==
    /\ \E incoming \in SeqsUpTo(OfferedFiles, MaxIncoming) : offered' = incoming
    /\ UNCHANGED <<files, items, busy, quality, iconSize, runs, rejected,
                   aloneVars, seen>>

\* handleFiles(offered)
acceptCall == handleFiles(offered)

NextAccept == acceptArguments \/ acceptCall

SpecAccept == Init /\ [][NextAccept]_vars

\* ---------------------------------------------------------------- claims

Finished(fr) == fr.pc = "done"

Settled == {"done", "error"}

\* the number of files of the run whose pipeline succeeded
Succeeded(fr) == {k \in 1..Len(fr.outcome) : fr.outcome[k] = "done"}

\* C1: when a batch run completes, every item of the item list is Done or
\* Error; none is Ready or Working.
C1_AllSettledAtCompletion ==
    \A r \in DOMAIN runs :
        Finished(runs[r]) => \A k \in DOMAIN items : items[k].status \in Settled

\* a step of a batch run (it starts, resumes or ends a run), as opposed to a
\* submission or a clear, which replace the items by new ones
RunStep == SelectSeq(runs', InProgress) # SelectSeq(runs, InProgress)

StatusChanges(allowed) ==
    \A k \in DOMAIN items :
        (k \in DOMAIN items' /\ items'[k].status # items[k].status)
            => <<items[k].status, items'[k].status>> \in allowed

ForwardOnly ==
    {<<"ready", "working">>, <<"working", "done">>, <<"working", "error">>}

\* C2: every status change of an item is Ready->Working, Working->Done or
\* Working->Error: nothing goes back, nothing skips Working, and an item that
\* is Done or Error never changes again.
C2_ForwardOnly == [][RunStep => StatusChanges(ForwardOnly)]_vars

\* C2, amended: every status change a batch run makes is into Working (from
\* Ready, or from Done or Error when the file, or one of the same name, is
\* converted again), or from Working into Done or Error, or, for an item that
\* was resubmitted while its file was being converted, from Ready into Done or
\* Error.  A run never puts an item back to Ready and never moves an item
\* between Done and Error without passing through Working.
C2_ThroughWorking ==
    [][RunStep =>
        StatusChanges(ForwardOnly \cup
                      {<<"done", "working">>, <<"error", "working">>,
                       <<"ready", "done">>, <<"ready", "error">>})]_vars

\* C2, its case: a later run has started over a list whose items an earlier
\* run left Done or Error
C2_Witness ==
    \E r \in DOMAIN runs :
        /\ InProgress(runs[r])
        /\ runs[r].outcome = <<>>
        /\ \E k \in DOMAIN items : items[k].status \in Settled

\* C3: an item whose pipeline failed is Error, every later item is still
\* converted, and each item ends with the outcome of its own pipeline.  Stated
\* for the items the run has finished and that were not replaced meanwhile
\* (same name at the same place, not reset to Ready).
C3_OwnOutcome ==
    \A r \in DOMAIN runs :
        \A k \in 1..Len(runs[r].outcome) :
            ( /\ k \in DOMAIN items
              /\ items[k].name = runs[r].files[k].name
              /\ items[k].status # "ready" )
                => items[k].status = runs[r].outcome[k]

\* C4: the archive of a run over more than one file holds one entry for each
\* item that succeeded, under <base-name>.<ext>, and none for the others.
C4_OneEntryPerSuccess ==
    \A r \in DOMAIN runs :
        (Len(runs[r].files) > 1 /\ runs[r].pc \in {"zip", "done"}) =>
            /\ Cardinality(runs[r].zip) = Cardinality(Succeeded(runs[r]))
            /\ \A k \in Succeeded(runs[r]) :
                 \E e \in runs[r].zip :
                    /\ e.name = Append(getBaseName(runs[r].files[k].name), runs[r].mode)
                    /\ e.blob.src = k

\* C5: a run over exactly one file builds no archive; what it downloads is
\* <base-name>.<ext>, once, if the item succeeded, and nothing otherwise.
C5_SingleIsDirect ==
    \A r \in DOMAIN runs :
        LET fr == runs[r]
        IN Len(fr.files) = 1 =>
            /\ fr.pc # "zip"
            /\ fr.zip = {}
            /\ ~fr.thrown
            /\ InProgress(fr) => fr.downloads = <<>>
            /\ Finished(fr) =>
                 fr.downloads =
                    IF fr.outcome = <<"done">>
                    THEN <<Append(getBaseName(fr.files[1].name), fr.mode)>>
                    ELSE <<>>

\* C5, its case: a run over one file has returned after a download
C5_Witness ==
    \E r \in DOMAIN runs :
        /\ Len(runs[r].files) = 1
        /\ Finished(runs[r])
        /\ runs[r].downloads # <<>>

ArchiveName(mode) ==
    IF mode = "webp" THEN <<"webp-conversions", "zip">> ELSE <<"ico-icons", "zip">>

\* C6: a run over more than one file downloads the archive exactly once, after
\* every item, and nothing else.
C6_ArchiveExactlyOnce ==
    \A r \in DOMAIN runs :
        (Len(runs[r].files) > 1 /\ Finished(runs[r])) =>
            runs[r].downloads = <<ArchiveName(runs[r].mode)>>

\* C6, amended: a run over more than one file downloads nothing before every
\* file of the run has been converted or has failed; it then downloads the
\* archive, named after the mode, exactly once if the archive could be
\* generated and nothing if not; it never downloads a single artifact.
C6_ArchiveOnceIfGenerated ==
    \A r \in DOMAIN runs :
        LET fr == runs[r]
        IN Len(fr.files) > 1 =>
            /\ fr.pc \in {"zip", "done"} <=> Len(fr.outcome) = Len(fr.files)
            /\ InProgress(fr) => fr.downloads = <<>>
            /\ Finished(fr) =>
                 fr.downloads =
                    IF fr.thrown THEN <<>> ELSE <<ArchiveName(fr.mode)>>

\* C6, its case: a run over several files, one of which failed, has
\* downloaded its archive
C6_Witness ==
    \E r \in DOMAIN runs :
        /\ Len(runs[r].files) > 1
        /\ Finished(runs[r])
        /\ "error" \in {runs[r].outcome[k] : k \in DOMAIN runs[r].outcome}
        /\ runs[r].downloads # <<>>

\* C7: at most one batch run is in progress, and an invocation of convertAll
\* made while one is in progress changes nothing.
C7_OneRunAtATime ==
    /\ [](Cardinality({r \in DOMAIN runs : InProgress(runs[r])}) <= 1)
    /\ [][((\E r \in DOMAIN runs : InProgress(runs[r]))
            /\ (\E mode \in Modes : convertAll(mode)))
          => (rejected' /\ UNCHANGED <<files, items, busy, quality, iconSize, runs>>)]_vars

\* C7, its case: convertAll was invoked during a run and returned at its guard
C7_Witness ==
    /\ rejected
    /\ \E r \in DOMAIN runs : InProgress(runs[r]) /\ runs[r].outcome # <<>>

\* C8: every object URL created while an item is loaded is revoked when the
\* item's pipeline ends, so only the item being converted has live URLs and a
\* run that has returned has none.
C8_HandlesReleased ==
    \A r \in DOMAIN runs :
        /\ \A h \in runs[r].live : h[1] = runs[r].i
        /\ Finished(runs[r]) => runs[r].live = {}

\* C9: items are converted one at a time, so at most one item is Working.
C9_OneWorking ==
    Cardinality({k \in DOMAIN items : items[k].status = "working"}) <= 1

\* little-endian readers of a byte sequence, by offset
U16(bytes, offset) == bytes[offset + 1] + 256 * bytes[offset + 2]

U32(bytes, offset) ==
    bytes[offset + 1] + 256 * bytes[offset + 2]
        + 65536 * bytes[offset + 3] + 16777216 * bytes[offset + 4]

\* C10: buildIcoBlob returns 22 + L bytes: the header 0, 1, 1 (u16), the size
\* byte twice (0 for 256), 0, 0, then 1 and 32 (u16), L and 22 (u32), all
\* little-endian, followed by the PNG bytes unchanged.
C10_IcoLayout ==
    icoBlob # <<>> =>
        /\ Len(icoBlob) = 22 + Len(pngData)
        /\ U16(icoBlob, 0) = 0
        /\ U16(icoBlob, 2) = 1
        /\ U16(icoBlob, 4) = 1
        /\ icoBlob[7] = (IF icoSize = 256 THEN 0 ELSE icoSize)
        /\ icoBlob[8] = (IF icoSize = 256 THEN 0 ELSE icoSize)
        /\ icoBlob[9] = 0
        /\ icoBlob[10] = 0
        /\ U16(icoBlob, 10) = 1
        /\ U16(icoBlob, 12) = 32
        /\ U32(icoBlob, 14) = Len(pngData)
        /\ U32(icoBlob, 18) = 22
        /\ \A k \in 1..Len(pngData) : icoBlob[22 + k] = pngData[k]

\* C10, its case: the blob of a 256-pixel icon with a non-empty PNG
C10_Witness ==
    /\ icoBlob # <<>>
    /\ icoSize = 256
    /\ Len(pngData) >= 2

\* C11: when the archive of a multi-file run cannot be generated, the run
\* downloads nothing, convertAll rejects (the failure reaches its caller) and
\* the failure is written on no item: the items are left as the iterations
\* left them.  A run that leaves the archive step has either downloaded the
\* archive and returned, or failed in exactly this way.
C11_ArchiveFailureIsWhole ==
    /\ [](\A r \in DOMAIN runs :
            runs[r].thrown => /\ Finished(runs[r])
                              /\ Len(runs[r].files) > 1
                              /\ runs[r].downloads = <<>>)
    /\ [][\A r \in DOMAIN runs :
            (runs[r].pc = "zip" /\ r \in DOMAIN runs' /\ runs'[r].pc = "done")
            => \/ /\ ~runs'[r].thrown
                  /\ runs'[r].downloads = <<ArchiveName(runs[r].mode)>>
               \/ /\ runs'[r].thrown
                  /\ runs'[r].downloads = <<>>
                  /\ items' = items]_vars

\* an archive with an entry in it failed to generate, and an item of the list
\* still shows what its iteration gave it
C11_Witness ==
    \E r \in DOMAIN runs :
        /\ runs[r].thrown
        /\ runs[r].zip # {}
        /\ \E k \in DOMAIN items : items[k].status = "done"
        /\ \E k \in DOMAIN items : items[k].status = "error"

\* the setting a frame encodes with, in its mode
SettingOf(fr) == IF fr.mode = "webp" THEN fr.quality ELSE fr.iconSize

\* C12: the configuration of a run is fixed when the run starts.  The frame
\* of a run that starts takes the quality and the icon size the page has at
\* that moment; while the run is in progress its mode, quality and icon size
\* do not change, whatever the slider and the size buttons do meanwhile; and
\* every artifact the run produces is encoded in the run's mode with the
\* run's setting.
C12_ConfigFixed ==
    /\ [](\A r \in DOMAIN runs : \A k \in DOMAIN runs[r].artifacts :
            LET blob == runs[r].artifacts[k].blob
            IN /\ blob.arg = SettingOf(runs[r])
               /\ blob.type = IF runs[r].mode = "webp" THEN "image/webp"
                                                      ELSE "image/x-icon")
    /\ [][/\ (~busy /\ busy') =>
               /\ runs'[Len(runs')].quality = quality
               /\ runs'[Len(runs')].iconSize = iconSize
          /\ \A r \in DOMAIN runs :
               InProgress(runs[r]) =>
                   /\ r \in DOMAIN runs'
                   /\ runs'[r].mode = runs[r].mode
                   /\ runs'[r].quality = runs[r].quality
                   /\ runs'[r].iconSize = runs[r].iconSize]_vars

\* a run over two files has produced both artifacts although the quality and
\* the icon size of the page were changed while it was in progress
C12_Witness ==
    \E r \in DOMAIN runs :
        /\ Len(runs[r].artifacts) = 2
        /\ runs[r].quality # quality
        /\ runs[r].iconSize # iconSize

\* C13: while busy is true the item list keeps its items, in their order, and
\* changes only by the status updates of the run: no submission and no clear
\* alters it between the start and the end of a run.
C13_ListProtectedWhileBusy ==
    [][busy => /\ Len(items') = Len(items)
               /\ \A k \in DOMAIN items : items'[k].name = items[k].name
               /\ (items' # items => RunStep)]_vars

\* What the sizing rule says of a text, stated without running parseFloat or
\* split.  The first position of `text` that is not whitespace:
FirstMark(text) ==
    CHOOSE i \in 1..(Len(text) + 1) :
        /\ \A j \in 1..(i - 1) : isWhitespace(text[j])
        /\ i = Len(text) + 1 \/ ~isWhitespace(text[i])

\* the text is a number, possibly followed by a unit
IsNumeric(text) ==
    FirstMark(text) <= Len(text) /\ isDigit(text[FirstMark(text)])

\* the last digit of the number the text starts with
LastDigit(text) ==
    CHOOSE e \in FirstMark(text)..Len(text) :
        /\ \A j \in FirstMark(text)..e : isDigit(text[j])
        /\ e = Len(text) \/ ~isDigit(text[e + 1])

RECURSIVE Decimal(_, _, _)
Decimal(text, i, e) ==
    IF i > e THEN 0
    ELSE digitValue(text[i]) * 10 ^ (e - i) + Decimal(text, i + 1, e)

NumberOf(text) == Decimal(text, FirstMark(text), LastDigit(text))

\* the components of a viewBox: its maximal runs of characters that are not
\* whitespace, as pairs of first and last position
Components(text) ==
    {f \in (1..Len(text)) \X (1..Len(text)) :
        /\ f[1] <= f[2]
        /\ \A k \in f[1]..f[2] : ~isWhitespace(text[k])
        /\ f[1] = 1 \/ isWhitespace(text[f[1] - 1])
        /\ f[2] = Len(text) \/ isWhitespace(text[f[2] + 1])}

\* the n-th component, as a text
Component(text, n) ==
    LET f == CHOOSE g \in Components(text) :
                 Cardinality({h \in Components(text) : h[1] < g[1]}) = n - 1
    IN SubSeq(text, f[1], f[2])

\* exactly four components, each a number, and nothing around them
FourNumbers(text) ==
    /\ Cardinality(Components(text)) = 4
    /\ ~isWhitespace(text[1]) /\ ~isWhitespace(text[Len(text)])
    /\ \A f \in Components(text) : isDigit(text[f[1]])

\* the precedence of the sizing rule: declared width and height, else the
\* viewBox, else the default
RuleSize(doc) ==
    IF doc.svg /\ IsNumeric(doc.width) /\ IsNumeric(doc.height)
    THEN <<NumberOf(doc.width), NumberOf(doc.height)>>
    ELSE IF doc.svg /\ FourNumbers(doc.viewBox)
         THEN <<NumberOf(Component(doc.viewBox, 3)),
                NumberOf(Component(doc.viewBox, 4))>>
         ELSE <<DEFAULT_SVG_SIZE, DEFAULT_SVG_SIZE>>

\* C14 as stated: the size returned for an SVG is exactly the size the
\* precedence gives: the declared width and height if both are numeric, else
\* the third and fourth component of a viewBox of four numbers, else 256 by
\* 256, the latter also for markup without an svg element.
C14_SvgPrecedence ==
    source # <<>> => source = RuleSize(svgDoc)

\* a dimension of 0 gives way to the natural dimension of the image, and to
\* the default if that is 0 too
NonZero(v, nat) == IF v # 0 THEN v ELSE IF nat # 0 THEN nat ELSE DEFAULT_SVG_SIZE

\* C14, amended: each dimension returned for an SVG is the one the precedence
\* gives if that is not 0, else the natural dimension of the loaded image if
\* that is not 0, else 256.
C14_SvgPrecedenceNonZero ==
    source # <<>> =>
        source = <<NonZero(RuleSize(svgDoc)[1], natural.width),
                   NonZero(RuleSize(svgDoc)[2], natural.height)>>

\* an SVG that declares width="0" height="24" and has a viewBox, loaded as
\* an image of 300 by 150, is returned as 300 by 24
C14_Witness ==
    /\ svgDoc.svg
    /\ svgDoc.width = <<"0">>
    /\ svgDoc.height = <<"2", "4">>
    /\ svgDoc.viewBox = <<"0", " ", "0", " ", "6", "4", " ", "3", "2">>
    /\ natural.width = 300
    /\ source = <<300, 24>>

\* the filename has an extension: a dot with something before it
HasExtension(file) == Len(file.name) > 1

\* the acceptance rule: the declared type, or the extension in lower case
AcceptedByRule(file) ==
    \/ file.type \in {"image/png", "image/jpeg", "image/jpg", "image/svg+xml"}
    \/ /\ HasExtension(file)
       /\ toLowerCase(file.name[Len(file.name)]) \in {"png", "jpg", "jpeg", "svg"}

\* C15: handleFiles keeps exactly the files whose declared type is one of the
\* four image types or whose filename has, in lower case, one of the four
\* extensions; the other files are dropped, and the item list gets one item
\* per file kept and none for a file dropped.
C15_AcceptedIffTypeOrExtension ==
    [][offered' = offered =>
          /\ files' = SelectSeq(offered, AcceptedByRule)
          /\ Len(items') = Len(files')
          /\ \A k \in DOMAIN items' : items'[k].name = files'[k].name]_vars

\* C16: two runs over the same single file with the same mode, quality and
\* icon size, the encoder being a function of its arguments, produce the same
\* output, name and content, whatever the first run and the events after it
\* left behind: the consecutive successful runs with the same inputs have
\* produced one output between them.
C16_SameInputSameOutput ==
    seen.on => Cardinality(seen.outputs) <= 1

\* a file has been converted a second time with the same settings, after the
\* first run left its item Done
C16_Witness ==
    /\ seen.times >= 2
    /\ seen.outputs # {}
    /\ \E r \in DOMAIN runs : Finished(runs[r]) /\ inputsOf(runs[r]) = seen.inputs

\* C17: in every reachable state the item list and the accepted file list
\* have the same length and item k carries the name of file k.
C17_ItemsMatchFiles ==
    /\ Len(items) = Len(files)
    /\ \A k \in DOMAIN items : items[k].name = files[k].name

\* a run over two files has returned, one item converted and one failed
C17_Witness ==
    /\ Len(files) = 2
    /\ \E r \in DOMAIN runs : Finished(runs[r]) /\ runs[r].files = files
    /\ {items[k].status : k \in DOMAIN items} = {"done", "error"}

\* C18: in every reachable state an item carries a detail if and only if its
\* status is Error.
C18_DetailIffError ==
    \A k \in DOMAIN items :
        items[k].detail # Undefined <=> items[k].status = "error"

\* a second run over two files whose items the first run left in Error: the
\* first item is Working again, its detail cleared, the second still shows
\* the error of the first run
C18_Witness ==
    /\ Len(items) = 2
    /\ \E r \in DOMAIN runs : InProgress(runs[r]) /\ runs[r].outcome = <<>>
    /\ items[1].status = "working" /\ items[1].detail = Undefined
    /\ items[2].status = "error" /\ items[2].detail # Undefined

\* C19: if every promise a run awaits is settled eventually, a run that has
\* started (busy is true) leads to a state in which it has attempted every
\* file of its list and has returned or thrown, and busy is false again.
C19_RunCompletes ==
    busy ~> (/\ ~busy
             /\ \E r \in DOMAIN runs :
                    /\ Finished(runs[r])
                    /\ Len(runs[r].outcome) = Len(runs[r].files))

\* a run over two files, one converted and one failed, whose archive could
\* not be generated, has ended and busy is false
C19_Witness ==
    /\ ~busy
    /\ \E r \in DOMAIN runs :
           /\ runs[r].thrown
           /\ {runs[r].outcome[k] : k \in DOMAIN runs[r].outcome} = {"done", "error"}
====
